---------------------------- MODULE Spec2Model ----------------------------
(***************************************************************************)
(* A model of the COS mirror: the local index (index_manager.py), the sync *)
(* differ (sync_detector.py) and the concurrent download orchestrator      *)
(* (cos_enhanced_downloader.py).                                           *)
(*                                                                         *)
(* Keys and entity tags are sequences of characters, so that the two text  *)
(* conversions of the code, cos_key.replace("/", "_") and                  *)
(* obj["ETag"].strip('"'), are computed and not assumed.                   *)
(***************************************************************************)
EXTENDS Integers, Sequences, FiniteSets, TLC

(***************************************************************************)
(* Bounds of the model.                                                    *)
(***************************************************************************)
\* the remote store holds at most MaxObjects objects
MaxObjects == 2
\* retry_times (--retry) ranges over 0..MaxRetry
MaxRetry == 2
\* max_workers (--workers) ranges over 1..MaxWorkers
MaxWorkers == 2
\* download_objects / sync_objects are called at most MaxCalls times
MaxCalls == 2
\* the index a comparison starts on, and the index the IndexManager is called
\* on from outside, hold at most MaxRows rows
MaxRows == 2
\* the store puts at most MaxPage objects in one response
MaxPage == 2
\* the remote store changes at most MaxRemoteChanges times
MaxRemoteChanges == 1
\* during one call at most MaxFaults operations of the filesystem, the client
\* and the database fail
MaxFaults == 2
\* where the backoff is examined, retry_times ranges over 1..MaxBackoffRetry
MaxBackoffRetry == 4
\* --min-size and --max-size range over 0..MaxSize
MaxSize == 2

(***************************************************************************)
(* The universe of values.                                                 *)
(***************************************************************************)
Quote == "\""

\* three remote keys; the first two differ only in "/" versus "_"
KeyAB == <<"a", "/", "b">>
KeyA_B == <<"a", "_", "b">>
KeyC == <<"c">>
\* the store lists keys in lexicographic (byte) order: "/" < "_" < "c"
KeyOrder == <<KeyAB, KeyA_B, KeyC>>
Keys == {KeyOrder[i] : i \in 1..Len(KeyOrder)}

\* entity tags as the store reports them: quoted
TagX == <<Quote, "x", Quote>>
TagY == <<Quote, "y", Quote>>
Tags == {TagX, TagY}

\* the size in bytes of the object stored under a key
SizeOf(k) == IF k = KeyC THEN 2 ELSE 1

\* output directories: the configured default and one given by --output-dir
DefaultDir == "downloads"
Dirs == {DefaultDir, "alt"}

NoObject == <<>>
NoFile == -1
\* main has not returned
NoExit == -1

(***************************************************************************)
(* Text conversions.                                                       *)
(***************************************************************************)
\* str.replace("/", "_")
Replace(s) == [i \in 1..Len(s) |-> IF s[i] = "/" THEN "_" ELSE s[i]]

RECURSIVE LStrip(_)
LStrip(s) ==
  IF s # <<>> /\ Head(s) = Quote THEN LStrip(Tail(s)) ELSE s

RECURSIVE RStrip(_)
RStrip(s) ==
  IF s # <<>> /\ s[Len(s)] = Quote THEN RStrip(SubSeq(s, 1, Len(s) - 1)) ELSE s

\* str.strip('"'): every leading and trailing quote character removed
Strip(s) == RStrip(LStrip(s))

\* output_path / cos_key.replace("/", "_")
LocalPath(dir, cos_key) == <<dir, Replace(cos_key)>>

Paths == {LocalPath(d, k) : d \in Dirs, k \in Keys}

(***************************************************************************)
(* The local index: the rows of table local_files in rowid order.  The     *)
(* timestamps last_modified and download_time are not modelled.            *)
(***************************************************************************)
\* a row of local_files
Row(file_path, file_size, md5_hash, cos_key, etag) ==
  [file_path |-> file_path, file_size |-> file_size, md5_hash |-> md5_hash,
   cos_key |-> cos_key, etag |-> etag]

\* idx without the row whose primary key is file_path
RECURSIVE WithoutPath(_, _)
WithoutPath(idx, file_path) ==
  IF idx = <<>> THEN <<>>
  ELSE IF Head(idx).file_path = file_path
       THEN WithoutPath(Tail(idx), file_path)
       ELSE <<Head(idx)>> \o WithoutPath(Tail(idx), file_path)

\* a faulty upsert: the table is emptied first
add_file_truncate(idx, file_path, file_size, md5_hash, cos_key, etag) ==
  <<Row(file_path, file_size, md5_hash, cos_key, etag)>>

\* a faulty upsert: a plain INSERT
add_file_insert(idx, file_path, file_size, md5_hash, cos_key, etag) ==
  Append(idx, Row(file_path, file_size, md5_hash, cos_key, etag))

\* IndexManager.add_file: INSERT OR REPLACE on the primary key file_path; the
\* replaced row is deleted and the new row gets the highest rowid
add_file(idx, file_path, file_size, md5_hash, cos_key, etag) ==
  Append(WithoutPath(idx, file_path),
         Row(file_path, file_size, md5_hash, cos_key, etag))

\* a faulty delete: the oldest row, whatever its path
remove_file_oldest(idx, file_path) == IF idx = <<>> THEN <<>> ELSE Tail(idx)

\* IndexManager.remove_file: DELETE ... WHERE file_path = ?
remove_file(idx, file_path) == WithoutPath(idx, file_path)

\* a faulty read: fetchone() in place of fetchall()
get_all_files_one(idx) == IF idx = <<>> THEN <<>> ELSE <<Head(idx)>>

\* IndexManager.get_all_files: SELECT * FROM local_files
get_all_files(idx) == idx

\* IndexManager.get_file: the rows SELECT * ... WHERE file_path = ? finds, of
\* which fetchone() returns the first, or None when there is none
get_file(idx, file_path) ==
  LET found == SelectSeq(idx, LAMBDA r : r.file_path = file_path)
  IN IF found = <<>> THEN <<>> ELSE <<Head(found)>>

\* a faulty lookup: the etag is not compared
file_exists_any_etag(idx, cos_key, etag) ==
  \E i \in 1..Len(idx) : idx[i].cos_key = cos_key

\* IndexManager.file_exists: SELECT 1 ... WHERE cos_key = ? AND etag = ?
file_exists(idx, cos_key, etag) ==
  \E i \in 1..Len(idx) : idx[i].cos_key = cos_key /\ idx[i].etag = etag

(***************************************************************************)
(* The sync differ, SyncDetector.compare_objects.                          *)
(***************************************************************************)
\* the keys of a dict built by {key: value for ...}: first-insertion order
DictKeys(ks) ==
  LET F[i \in 0..Len(ks)] ==
        IF i = 0 THEN <<>>
        ELSE IF \E j \in 1..(i - 1) : ks[j] = ks[i]
             THEN F[i - 1]
             ELSE Append(F[i - 1], ks[i])
  IN F[Len(ks)]

\* the position whose value a dict comprehension keeps for key k: the last
LastAt(ks, k) ==
  CHOOSE i \in 1..Len(ks) : ks[i] = k /\ \A j \in (i + 1)..Len(ks) : ks[j] # k

RemoteKeysOf(remote_objects) ==
  [i \in 1..Len(remote_objects) |-> remote_objects[i].Key]

LocalKeysOf(local_files) ==
  [i \in 1..Len(local_files) |-> local_files[i].cos_key]

\* remote_map[key]
remote_map(remote_objects, key) ==
  remote_objects[LastAt(RemoteKeysOf(remote_objects), key)]

\* key in local_map
InLocalMap(local_files, key) ==
  \E i \in 1..Len(local_files) : local_files[i].cos_key = key

\* local_map[key]
local_map(local_files, key) ==
  local_files[LastAt(LocalKeysOf(local_files), key)]

\* the test of line 88
IsNew(remote_obj, local_files) == ~InLocalMap(local_files, remote_obj.Key)

\* a faulty test: equal tags, not different ones
IsUpdatedInverted(remote_obj, local_files) ==
  /\ InLocalMap(local_files, remote_obj.Key)
  /\ local_map(local_files, remote_obj.Key).etag = Strip(remote_obj.ETag)

\* the test of line 90, reached when the key is in local_map
IsUpdated(remote_obj, local_files) ==
  /\ InLocalMap(local_files, remote_obj.Key)
  /\ local_map(local_files, remote_obj.Key).etag # Strip(remote_obj.ETag)

\* a faulty test: deleted stays a placeholder
IsDeletedNever(key, remote_objects) == FALSE

\* the test of line 95
IsDeleted(key, remote_objects) ==
  ~(\E i \in 1..Len(remote_objects) : remote_objects[i].Key = key)

RECURSIVE SelectNew(_, _, _)
SelectNew(keys, remote_objects, local_files) ==
  IF keys = <<>> THEN <<>>
  ELSE LET o == remote_map(remote_objects, Head(keys))
           rest == SelectNew(Tail(keys), remote_objects, local_files)
       IN IF IsNew(o, local_files) THEN <<o>> \o rest ELSE rest

RECURSIVE SelectUpdated(_, _, _)
SelectUpdated(keys, remote_objects, local_files) ==
  IF keys = <<>> THEN <<>>
  ELSE LET o == remote_map(remote_objects, Head(keys))
           rest == SelectUpdated(Tail(keys), remote_objects, local_files)
       IN IF ~IsNew(o, local_files) /\ IsUpdated(o, local_files)
          THEN <<o>> \o rest ELSE rest

RECURSIVE SelectDeleted(_, _, _)
SelectDeleted(keys, remote_objects, local_files) ==
  IF keys = <<>> THEN <<>>
  ELSE LET rest == SelectDeleted(Tail(keys), remote_objects, local_files)
       IN IF IsDeleted(Head(keys), remote_objects)
          THEN <<local_map(local_files, Head(keys))>> \o rest ELSE rest

compare_objects(remote_objects, local_files) ==
  LET rkeys == DictKeys(RemoteKeysOf(remote_objects))
      lkeys == DictKeys(LocalKeysOf(local_files))
  IN [new |-> SelectNew(rkeys, remote_objects, local_files),
      updated |-> SelectUpdated(rkeys, remote_objects, local_files),
      deleted |-> SelectDeleted(lkeys, remote_objects, local_files)]

(***************************************************************************)
(* The state of the program and of its environment.                        *)
(***************************************************************************)
VARIABLES
  remote,          \* the bucket: key -> quoted entity tag, or NoObject
  index,           \* download_index.db: the rows of local_files
  files,           \* the local filesystem: path -> size in bytes, or NoFile
  retry_times,     \* EnhancedCOSDownloader.retry_times
  max_workers,     \* EnhancedCOSDownloader.max_workers
  phase,           \* where the current call of the downloader stands
  mode,            \* the operation called: "download" or "sync"
  calls,           \* calls made so far
  changes,         \* changes of the bucket so far
  start_remote,    \* the bucket when the current call began
  start_files,     \* the local filesystem when the current call began
  unstarted,       \* the tasks no worker had taken when the interrupt arrived
  remote_objects,  \* what list_remote_objects returned to sync_objects
  local_files,     \* what get_local_files returned to sync_objects
  diff,            \* what compare_objects returned
  download_tasks,  \* (cos_key, local_path, file_size, etag) per object
  pc,              \* per task: where its worker stands
  attempt,         \* per task: the loop variable of the retry loop
  slept,           \* per task: the durations of its calls of time.sleep
  result,          \* per task: what the future holds
  transferCalls,   \* per task: calls of client.download_file
  addCalls,        \* per task: calls of index_manager.add_file
  events,          \* per task: what the filesystem, the client and the
                   \*           database answered, in order
  faults,          \* the operations that failed during the current call
  collected,       \* the futures as_completed has yielded
  success_count,
  failed_count,
  skipped_count,
  reports,         \* the report files written by the current call
  returned,        \* what the current call of download_objects returned
  prev,            \* what the next call remembers of the one before it
  exit_code,       \* what main returned, or NoExit
  lister,          \* the lister that is running, or "none"
  max_keys,        \* the objects the store puts in one response
  false_enc,       \* how the store writes "not truncated"
  token_style,     \* what the store supplies as NextMarker
  marker,          \* the lister's cursor
  all_objects,     \* the objects the lister has accumulated
  requests,        \* the Marker of every list_objects request, in order
  responses,       \* the responses the store gave, in order
  list_pc,         \* "idle", "request", "returned" or "raised"
  list_result,     \* what the lister returned
  list_error,      \* the exception list_objects raised, or "none"
  extensions,      \* the filters of list_objects, each None when not given
  min_size,
  max_size,
  op               \* the last call of the IndexManager made from outside

vars == <<remote, index, files, retry_times, max_workers, phase, mode, calls,
          changes, start_remote, start_files, unstarted, remote_objects,
          local_files, diff,
          download_tasks, pc, attempt, slept, result, transferCalls, addCalls,
          events,
          faults, collected, success_count, failed_count, skipped_count, reports,
          returned, prev, exit_code, lister, max_keys, false_enc, token_style,
          marker, all_objects, requests, responses, list_pc, list_result,
          list_error, extensions, min_size, max_size, op>>

envVars == <<remote, changes>>
cfgVars == <<retry_times, max_workers>>
taskVars == <<pc, attempt, slept, result, transferCalls, addCalls, events>>
mainVars == <<phase, collected, success_count, failed_count, skipped_count,
              reports, returned, exit_code>>
callVars == <<mode, calls, start_remote, start_files, unstarted, remote_objects,
              local_files, diff, download_tasks, prev>>
filterVars == <<extensions, min_size, max_size>>
listVars == <<lister, max_keys, false_enc, token_style, marker, all_objects,
              requests, responses, list_pc, list_result, list_error,
              filterVars>>
\* what the downloader's calls leave alone
sideVars == <<listVars, op>>

\* the answers that are failures, and the answers the environment may still
\* give out of the set A
Failures == {"fs_error", "transfer_error", "stat_error", "add_error"}
\* the failures of one call: MaxFaults, or as many as exhaust the attempts of
\* one task
FaultLimit == IF retry_times > MaxFaults THEN retry_times ELSE MaxFaults
Answers(A) == IF faults < FaultLimit THEN A ELSE A \ Failures
Count(out) == faults' = faults + (IF out \in Failures THEN 1 ELSE 0)

\* an optional argument: Python's None, or a value
NoneInt == [given |-> FALSE, value |-> 0]
NoneList == [given |-> FALSE, value |-> <<>>]
Given(v) == [given |-> TRUE, value |-> v]

\* the outcomes a task returns
Outcomes == {"success", "skipped", "failed"}
\* an exception the orchestrator catches (line 334) and one it does not
RaisedOSError == "OSError"
RaisedDbError == "sqlite3.Error"

Tasks == 1..Len(download_tasks)

NoDiff == [new |-> <<>>, updated |-> <<>>, deleted |-> <<>>]
NoPrev ==
  [mode |-> "none", listed |-> FALSE, clean |-> FALSE, unchanged |-> FALSE,
   succ |-> {}]

\* what the store lists: the objects present, in key order
RECURSIVE ListFrom(_, _)
ListFrom(store, i) ==
  IF i > Len(KeyOrder) THEN <<>>
  ELSE LET k == KeyOrder[i]
       IN IF store[k] = NoObject THEN ListFrom(store, i + 1)
          ELSE <<[Key |-> k, Size |-> SizeOf(k), ETag |-> store[k]]>>
               \o ListFrom(store, i + 1)

Listing(store) == ListFrom(store, 1)

\* the members of seq at the positions in S, in order
RECURSIVE Pick(_, _, _)
Pick(seq, S, i) ==
  IF i > Len(seq) THEN <<>>
  ELSE IF i \in S THEN <<seq[i]>> \o Pick(seq, S, i + 1)
       ELSE Pick(seq, S, i + 1)

\* the row a successful task writes for the object (k, tag) under dir
RowFor(dir, k, tag) ==
  Row(LocalPath(dir, k), SizeOf(k), <<k, Strip(tag)>>, k, Strip(tag))

\* the files of a fresh working directory, but for one file placed by hand
\* at downloads/a_b, of the size of an object or of another size
FilesBefore ==
  {f \in [Paths -> {NoFile} \cup {SizeOf(k) : k \in Keys}] :
     \A p \in Paths : f[p] # NoFile => p = LocalPath(DefaultDir, KeyA_B)}

\* no call of the downloader has been made
InitCall ==
  /\ phase = "idle"
  /\ mode = "none"
  /\ calls = 0
  /\ changes = 0
  /\ start_remote = remote
  /\ start_files = files
  /\ unstarted = {}
  /\ remote_objects = <<>>
  /\ local_files = <<>>
  /\ diff = NoDiff
  /\ download_tasks = <<>>
  /\ pc = <<>>
  /\ attempt = <<>>
  /\ slept = <<>>
  /\ result = <<>>
  /\ transferCalls = <<>>
  /\ addCalls = <<>>
  /\ events = <<>>
  /\ faults = 0
  /\ collected = {}
  /\ success_count = 0
  /\ failed_count = 0
  /\ skipped_count = 0
  /\ reports = <<>>
  /\ returned = <<>>
  /\ prev = NoPrev
  /\ exit_code = NoExit

\* no lister runs
InitLister ==
  /\ lister = "none"
  /\ max_keys = 1
  /\ false_enc = "absent"
  /\ token_style = "key"
  /\ marker = <<>>
  /\ all_objects = <<>>
  /\ requests = <<>>
  /\ responses = <<>>
  /\ list_pc = "idle"
  /\ list_result = <<>>
  /\ list_error = "none"
  /\ extensions = NoneList
  /\ min_size = NoneInt
  /\ max_size = NoneInt

NoOp ==
  [name |-> "none", file_path |-> <<>>, cos_key |-> <<>>, etag |-> <<>>,
   before |-> <<>>, live |-> {}]

\* the part of the state that is the same in every initial state
InitRest ==
  /\ InitCall
  /\ InitLister
  /\ op = NoOp

\* the index an earlier process left: empty, or one row, written for an
\* object as it is now (TagX) or as it was before it changed (TagY)
IndexBefore ==
  {<<>>, <<RowFor(DefaultDir, KeyAB, TagX)>>, <<RowFor(DefaultDir, KeyAB, TagY)>>,
   <<RowFor(DefaultDir, KeyC, TagX)>>}

\* a process starts on the index an earlier process left
Init ==
  /\ remote \in {r \in [Keys -> {NoObject, TagX}] :
                   Cardinality({k \in Keys : r[k] # NoObject}) = MaxObjects}
  /\ index \in IndexBefore
  /\ files \in FilesBefore
  /\ retry_times \in 0..MaxRetry
  /\ max_workers \in 1..MaxWorkers
  /\ InitRest

\* a fresh working directory and two objects with different local paths, with
\* up to MaxBackoffRetry attempts for each
InitBackoff ==
  /\ remote = [k \in Keys |-> IF k = KeyA_B THEN NoObject ELSE TagX]
  /\ index = <<>>
  /\ files = [p \in Paths |-> NoFile]
  /\ retry_times \in 1..MaxBackoffRetry
  /\ max_workers \in 1..MaxWorkers
  /\ InitRest

\* the first process ever: an empty index
InitRuns ==
  /\ remote \in {r \in [Keys -> {NoObject, TagX}] :
                   Cardinality({k \in Keys : r[k] # NoObject}) <= MaxObjects}
  /\ index = <<>>
  /\ files \in FilesBefore
  /\ retry_times \in 0..MaxRetry
  /\ max_workers \in 1..MaxWorkers
  /\ InitRest

(***************************************************************************)
(* The calls: download_objects and sync_objects.                           *)
(***************************************************************************)
\* between two calls: nothing called yet, or the last call returned or raised
Callable(n) == phase \in {"idle", "returned", "raised"} /\ calls < n

\* one entry of download_tasks (lines 297-302)
TaskOf(obj, output_dir) ==
  [cos_key |-> obj.Key,
   local_path |-> LocalPath(output_dir, obj.Key),
   file_size |-> obj.Size,
   etag |-> Strip(obj.ETag)]

\* what the call being made remembers of the call before it
Remember ==
  prev' = [mode |-> mode,
           listed |-> mode = "sync" /\ remote_objects = Listing(start_remote),
           clean |-> /\ phase = "returned"
                     /\ \A t \in Tasks : result[t] \in {"success", "skipped"},
           unchanged |-> start_remote = remote,
           succ |-> {<<download_tasks[t].cos_key, download_tasks[t].etag>> :
                       t \in {u \in Tasks : result[u] = "success"}}]

\* EnhancedCOSDownloader.download_objects up to the submission of the tasks
download_objects(objects, output_dir) ==
  /\ download_tasks' = [i \in 1..Len(objects) |-> TaskOf(objects[i], output_dir)]
  /\ pc' = [i \in 1..Len(objects) |-> "queued"]
  /\ attempt' = [i \in 1..Len(objects) |-> 0]
  /\ slept' = [i \in 1..Len(objects) |-> <<>>]
  /\ result' = [i \in 1..Len(objects) |-> "none"]
  /\ transferCalls' = [i \in 1..Len(objects) |-> 0]
  /\ addCalls' = [i \in 1..Len(objects) |-> 0]
  /\ events' = [i \in 1..Len(objects) |-> <<>>]
  /\ faults' = 0
  /\ collected' = {}
  /\ success_count' = 0
  /\ failed_count' = 0
  /\ skipped_count' = 0
  /\ reports' = <<>>
  /\ IF objects = <<>>
     THEN /\ phase' = "returned"
          /\ returned' = <<[success |-> 0, failed |-> 0, skipped |-> 0]>>
     ELSE /\ phase' = "running"
          /\ returned' = <<>>

\* a call of download_objects on some of the listed objects (main, lines
\* 470-485, where list_objects has filtered the listing)
DownloadObjects(n, dirs) ==
  /\ Callable(n)
  /\ \E S \in SUBSET (1..Len(Listing(remote))), output_dir \in dirs :
       /\ download_objects(Pick(Listing(remote), S, 1), output_dir)
       \* lines 477-479: nothing matched, main returns 0
       /\ exit_code' = IF S = {} THEN 0 ELSE NoExit
  /\ mode' = "download"
  /\ calls' = calls + 1
  /\ start_remote' = remote
  /\ start_files' = files
  /\ unstarted' = {}
  /\ remote_objects' = <<>>
  /\ local_files' = <<>>
  /\ diff' = NoDiff
  /\ Remember
  /\ UNCHANGED <<sideVars, envVars, cfgVars, index, files>>

\* a faulty sync: every listed object is submitted, whatever the diff says
SyncObjectsAll(n) ==
  /\ Callable(n)
  /\ \E listed \in BOOLEAN :
       LET listing == IF listed THEN Listing(remote) ELSE <<>>
           d == compare_objects(listing, get_all_files(index))
           files_to_download == listing
       IN /\ remote_objects' = listing
          /\ local_files' = get_all_files(index)
          /\ diff' = d
          /\ IF files_to_download # <<>>
             THEN /\ download_objects(files_to_download, DefaultDir)
                  /\ exit_code' = NoExit
             ELSE /\ exit_code' = 0
                  /\ download_tasks' = <<>>
                  /\ pc' = <<>>
                  /\ attempt' = <<>>
                  /\ slept' = <<>>
                  /\ result' = <<>>
                  /\ transferCalls' = <<>>
                  /\ addCalls' = <<>>
                  /\ events' = <<>>
                  /\ faults' = 0
                  /\ collected' = {}
                  /\ success_count' = 0
                  /\ failed_count' = 0
                  /\ skipped_count' = 0
                  /\ reports' = <<>>
                  /\ returned' = <<>>
                  /\ phase' = "returned"
  /\ mode' = "sync"
  /\ calls' = calls + 1
  /\ start_remote' = remote
  /\ start_files' = files
  /\ unstarted' = {}
  /\ Remember
  /\ UNCHANGED <<sideVars, envVars, cfgVars, index, files>>

\* EnhancedCOSDownloader.sync_objects up to the submission of the tasks.  The
\* listing is one page (MaxKeys=1000); a transport error ends it empty.
SyncObjects(n) ==
  /\ Callable(n)
  /\ \E listed \in BOOLEAN :
       LET listing == IF listed THEN Listing(remote) ELSE <<>>
           d == compare_objects(listing, get_all_files(index))
           files_to_download == d.new \o d.updated
       IN /\ remote_objects' = listing
          /\ local_files' = get_all_files(index)
          /\ diff' = d
          /\ IF files_to_download # <<>>
             THEN /\ download_objects(files_to_download, DefaultDir)
                  /\ exit_code' = NoExit
             ELSE /\ exit_code' = 0
                  /\ download_tasks' = <<>>
                  /\ pc' = <<>>
                  /\ attempt' = <<>>
                  /\ slept' = <<>>
                  /\ result' = <<>>
                  /\ transferCalls' = <<>>
                  /\ addCalls' = <<>>
                  /\ events' = <<>>
                  /\ faults' = 0
                  /\ collected' = {}
                  /\ success_count' = 0
                  /\ failed_count' = 0
                  /\ skipped_count' = 0
                  /\ reports' = <<>>
                  /\ returned' = <<>>
                  /\ phase' = "returned"
  /\ mode' = "sync"
  /\ calls' = calls + 1
  /\ start_remote' = remote
  /\ start_files' = files
  /\ unstarted' = {}
  /\ Remember
  /\ UNCHANGED <<sideVars, envVars, cfgVars, index, files>>

\* the bucket changes between two calls: an object is replaced or deleted
RemoteChange ==
  /\ phase \in {"returned", "raised"}
  /\ calls < MaxCalls
  /\ changes < MaxRemoteChanges
  /\ \E k \in Keys, v \in Tags \cup {NoObject} :
       /\ remote[k] # NoObject
       /\ v # remote[k]
       /\ remote' = [remote EXCEPT ![k] = v]
  /\ changes' = changes + 1
  /\ UNCHANGED <<sideVars, cfgVars, index, files, taskVars, faults, mainVars, callVars>>

(***************************************************************************)
(* One download task, EnhancedCOSDownloader._download_single_file, run by  *)
(* a worker of the ThreadPoolExecutor.                                     *)
(***************************************************************************)
Running == {t \in Tasks : pc[t] \notin {"queued", "done"}}

\* the task ends: it returns an outcome or raises
Ends(t, outcome) ==
  /\ pc' = [pc EXCEPT ![t] = "done"]
  /\ result' = [result EXCEPT ![t] = outcome]

\* a faulty pool: a task starts whether or not a worker is free
StartUnbounded(t) ==
  /\ phase \in {"running", "raising", "stopping"}
  /\ pc[t] = "queued"
  /\ \A u \in Tasks : u < t => pc[u] # "queued"
  /\ pc' = [pc EXCEPT ![t] = "check_index"]
  /\ UNCHANGED <<sideVars, envVars, cfgVars, index, files, attempt, slept, result,
                 transferCalls, addCalls, events, faults, mainVars, callVars>>

\* a worker takes the next task of the queue
Start(t) ==
  /\ phase \in {"running", "raising", "stopping"}
  /\ pc[t] = "queued"
  /\ \A u \in Tasks : u < t => pc[u] # "queued"
  /\ Cardinality(Running) < max_workers
  /\ pc' = [pc EXCEPT ![t] = "check_index"]
  /\ UNCHANGED <<sideVars, envVars, cfgVars, index, files, attempt, slept, result, transferCalls,
                 addCalls, events, faults, mainVars, callVars>>

\* a faulty gate: the index is not consulted
CheckIndexNoGate(t) ==
  /\ pc[t] = "check_index"
  /\ pc' = [pc EXCEPT ![t] = "check_local"]
  /\ UNCHANGED <<sideVars, envVars, cfgVars, index, files, attempt, slept, result, transferCalls,
                 addCalls, events, faults, mainVars, callVars>>

\* lines 142-144: the dedupe gate
CheckIndex(t) ==
  /\ pc[t] = "check_index"
  /\ IF file_exists(index, download_tasks[t].cos_key, download_tasks[t].etag)
     THEN Ends(t, "skipped")
     ELSE /\ pc' = [pc EXCEPT ![t] = "check_local"]
          /\ UNCHANGED result
  /\ UNCHANGED <<sideVars, envVars, cfgVars, index, files, attempt, slept, transferCalls,
                 addCalls, events, faults, mainVars, callVars>>

\* a faulty local-presence check: any file at the path counts, whatever its size
CheckLocalAnySize(t) ==
  /\ pc[t] = "check_local"
  /\ \E fs \in Answers({"fs_error",
                          IF files[download_tasks[t].local_path] # NoFile
                          THEN "fs_present" ELSE "fs_absent"}) :
       /\ events' = [events EXCEPT ![t] = Append(@, fs)]
       /\ Count(fs)
       /\ IF fs = "fs_error" THEN Ends(t, RaisedOSError)
          ELSE IF fs = "fs_present"
          THEN Ends(t, "skipped")
          ELSE IF retry_times <= 0
          THEN Ends(t, "failed")
          ELSE /\ pc' = [pc EXCEPT ![t] = "transfer"]
               /\ UNCHANGED result
  /\ UNCHANGED <<sideVars, envVars, cfgVars, index, files, attempt, slept, transferCalls,
                 addCalls, mainVars, callVars>>

\* lines 146-153 and 188: the local-presence check, the mkdir and the entry of
\* the retry loop; an OSError of exists/stat/mkdir is raised out of the task
CheckLocal(t) ==
  /\ pc[t] = "check_local"
  /\ \E fs \in Answers({"fs_error",
                          IF files[download_tasks[t].local_path]
                               = download_tasks[t].file_size
                          THEN "fs_present" ELSE "fs_absent"}) :
       /\ events' = [events EXCEPT ![t] = Append(@, fs)]
       /\ Count(fs)
       /\ IF fs = "fs_error" THEN Ends(t, RaisedOSError)
          ELSE IF fs = "fs_present"
          THEN Ends(t, "skipped")
          ELSE IF retry_times <= 0
          THEN Ends(t, "failed")
          ELSE /\ pc' = [pc EXCEPT ![t] = "transfer"]
               /\ UNCHANGED result
  /\ UNCHANGED <<sideVars, envVars, cfgVars, index, files, attempt, slept, transferCalls,
                 addCalls, mainVars, callVars>>

\* a faulty backoff: the delay grows by one unit
backoff_linear(n) == n + 1

\* line 182: the argument of time.sleep, 2**attempt
backoff(n) == 2 ^ n

\* a faulty handler: the first error is final
HandleGivesUp(t) == Ends(t, "failed")

\* a faulty handler: one attempt more than retry_times
HandleOnceMore(t) ==
  IF attempt[t] < retry_times
  THEN /\ pc' = [pc EXCEPT ![t] = "sleep"]
       /\ UNCHANGED result
  ELSE Ends(t, "failed")

\* lines 174-187: the handler of CosServiceError and OSError
Handle(t) ==
  IF attempt[t] < retry_times - 1
  THEN /\ pc' = [pc EXCEPT ![t] = "sleep"]
       /\ UNCHANGED result
  ELSE Ends(t, "failed")

\* lines 155-163: download_file, then the MD5 and the stat of the written file
Transfer(t) ==
  /\ pc[t] = "transfer"
  /\ transferCalls' = [transferCalls EXCEPT ![t] = @ + 1]
  /\ \E out \in Answers({"transfer_ok", "transfer_error", "stat_error"}) :
       /\ events' = [events EXCEPT ![t] = Append(@, out)]
       /\ Count(out)
       /\ IF out = "transfer_error" THEN UNCHANGED files
          ELSE files' = [files EXCEPT ![download_tasks[t].local_path] =
                           download_tasks[t].file_size]
       /\ IF out = "transfer_ok"
          THEN /\ pc' = [pc EXCEPT ![t] = "add_file"]
               /\ UNCHANGED result
          ELSE Handle(t)
  /\ UNCHANGED <<sideVars, envVars, cfgVars, index, attempt, slept, addCalls, mainVars, callVars>>

\* line 182: time.sleep(2**attempt), then the next iteration of the loop
Wake(t) ==
  /\ pc[t] = "sleep"
  /\ slept' = [slept EXCEPT ![t] = Append(@, backoff(attempt[t]))]
  /\ attempt' = [attempt EXCEPT ![t] = @ + 1]
  /\ pc' = [pc EXCEPT ![t] = "transfer"]
  /\ UNCHANGED <<sideVars, envVars, cfgVars, index, files, result, transferCalls,
                 addCalls, events, faults, mainVars, callVars>>

\* a faulty index write: success is reported and nothing is committed
AddFileUncommitted(t) ==
  /\ pc[t] = "add_file"
  /\ addCalls' = [addCalls EXCEPT ![t] = @ + 1]
  /\ events' = [events EXCEPT ![t] = Append(@, "add_ok")]
  /\ Ends(t, "success")
  /\ UNCHANGED <<sideVars, envVars, cfgVars, index, files, attempt, slept, transferCalls,
                 faults, mainVars, callVars>>

\* lines 164-173: the index write; a sqlite3.Error is caught nowhere in the task
AddFile(t) ==
  /\ pc[t] = "add_file"
  /\ addCalls' = [addCalls EXCEPT ![t] = @ + 1]
  /\ \E out \in Answers({"add_ok", "add_error"}) :
       /\ events' = [events EXCEPT ![t] = Append(@, out)]
       /\ Count(out)
       /\ IF out = "add_ok"
          THEN /\ index' = add_file(index, download_tasks[t].local_path,
                                    download_tasks[t].file_size,
                                    <<download_tasks[t].cos_key, download_tasks[t].etag>>,
                                    download_tasks[t].cos_key, download_tasks[t].etag)
               /\ Ends(t, "success")
          ELSE /\ UNCHANGED index
               /\ Ends(t, RaisedDbError)
  /\ UNCHANGED <<sideVars, envVars, cfgVars, files, attempt, slept, transferCalls, mainVars,
                 callVars>>

(***************************************************************************)
(* The orchestrator: the as_completed loop of download_objects.            *)
(***************************************************************************)
\* lines 324-336: one iteration of the loop over the completed futures
Collect(t) ==
  /\ phase = "running"
  /\ pc[t] = "done"
  /\ t \notin collected
  /\ collected' = collected \cup {t}
  /\ success_count' = success_count + (IF result[t] = "success" THEN 1 ELSE 0)
  /\ failed_count' =
       failed_count + (IF result[t] \in {"failed", RaisedOSError} THEN 1 ELSE 0)
  /\ skipped_count' = skipped_count + (IF result[t] = "skipped" THEN 1 ELSE 0)
  /\ phase' = IF result[t] = RaisedDbError THEN "raising" ELSE "running"
  /\ UNCHANGED <<sideVars, exit_code, faults, envVars, cfgVars, index, files, taskVars, reports, returned,
                 callVars>>

\* _generate_download_report, lines 399-412
download_report(s, f, k, output_dir) ==
  [output_dir |-> output_dir,
   statistics |-> [success |-> s, failed |-> f, skipped |-> k, total |-> s + f + k],
   config |-> [max_workers |-> max_workers, retry_times |-> retry_times]]

\* main, lines 467-504, once the call it made has returned: sync_objects
\* returns None, download_objects the counts
main_returns(call_mode, failed) ==
  IF call_mode = "sync" THEN 0 ELSE IF failed > 0 THEN 1 ELSE 0

\* lines 347-355: the report is written and the counts are returned; main
\* returns
Return ==
  /\ phase = "running"
  /\ collected = Tasks
  /\ reports' = <<download_report(success_count, failed_count, skipped_count,
                                  download_tasks[1].local_path[1])>>
  /\ returned' = <<[success |-> success_count, failed |-> failed_count,
                    skipped |-> skipped_count]>>
  /\ phase' = "returned"
  /\ exit_code' = main_returns(mode, failed_count)
  /\ UNCHANGED <<sideVars, faults, envVars, cfgVars, index, files, taskVars, collected,
                 success_count, failed_count, skipped_count, callVars>>

\* the exception of future.result() leaves the loop; the executor's __exit__
\* waits for every submitted task, then the exception leaves download_objects
\* and, not being an OSError, ValueError or KeyError (line 498), main
Raise ==
  /\ phase = "raising"
  /\ \A t \in Tasks : pc[t] = "done"
  /\ phase' = "raised"
  /\ UNCHANGED <<sideVars, exit_code, faults, envVars, cfgVars, index, files, taskVars, collected,
                 success_count, failed_count, skipped_count, reports, returned,
                 callVars>>

\* a KeyboardInterrupt is raised in the main thread, which is in the loop
\* over the futures: the exception leaves the loop
Interrupt ==
  /\ phase = "running"
  /\ phase' = "stopping"
  /\ unstarted' = {t \in Tasks : pc[t] = "queued"}
  /\ UNCHANGED <<sideVars, exit_code, faults, envVars, cfgVars, index, files,
                 taskVars, collected, success_count, failed_count,
                 skipped_count, reports, returned, mode, calls, start_remote,
                 start_files, remote_objects, local_files, diff,
                 download_tasks, prev>>

\* the executor's __exit__ (shutdown(wait=True)) has waited for every
\* submitted task; main catches the KeyboardInterrupt and returns 1 (lines
\* 495-497)
Interrupted ==
  /\ phase = "stopping"
  /\ \A t \in Tasks : pc[t] = "done"
  /\ phase' = "interrupted"
  /\ exit_code' = 1
  /\ UNCHANGED <<sideVars, faults, envVars, cfgVars, index, files, taskVars,
                 collected, success_count, failed_count, skipped_count, reports,
                 returned, callVars>>

\* the steps of the workers and of the orchestrator
Step ==
  \/ \E t \in Tasks : Start(t)
  \/ \E t \in Tasks : CheckIndex(t)
  \/ \E t \in Tasks : CheckLocal(t)
  \/ \E t \in Tasks : Transfer(t)
  \/ \E t \in Tasks : Wake(t)
  \/ \E t \in Tasks : AddFile(t)
  \/ \E t \in Tasks : Collect(t)
  \/ Return
  \/ Raise

\* one call of the downloader, in either mode and into the default directory,
\* by a process that starts on an index an earlier process left
Next ==
  \/ DownloadObjects(1, {DefaultDir})
  \/ SyncObjects(1)
  \/ Step

Spec == Init /\ [][Next]_vars

\* up to MaxCalls calls in a row, from an empty index, the bucket changing
\* between them
NextRuns ==
  \/ DownloadObjects(MaxCalls, Dirs)
  \/ SyncObjects(MaxCalls)
  \/ RemoteChange
  \/ Step

SpecRuns == InitRuns /\ [][NextRuns]_vars

\* the threads of the pool and the main thread are scheduled, and every call
\* they make (the client, the filesystem, the database, time.sleep) returns
\* or raises: a step that can be taken is taken in the end
SpecLive == InitBackoff /\ [][Next]_vars /\ WF_vars(Step)

SpecBackoff == InitBackoff /\ [][Next]_vars

\* one call of the downloader, which the operator may interrupt
NextInterrupt ==
  \/ Next
  \/ Interrupt
  \/ Interrupted

SpecInterrupt == Init /\ [][NextInterrupt]_vars

(***************************************************************************)
(* Properties of one call (Spec).                                          *)
(***************************************************************************)
\* download_objects was called: directly, or by sync_objects on a non-empty
\* list of files to download
BatchCalled == mode = "download" \/ download_tasks # <<>>
\* the call is over: it returned or an exception left it
BatchOver == BatchCalled /\ phase \in {"returned", "raised"}

TaskIndexed(t) ==
  file_exists(index, download_tasks[t].cos_key, download_tasks[t].etag)

\* n failed transfers in a row
TransferErrors(n) == [i \in 1..n |-> "transfer_error"]

\* C1: whatever the outcome of each of the K submitted tasks, an exception
\* raised inside a task included, download_objects returns counts with
\* success + failed + skipped = K, having counted every task once, and the
\* report it writes has total = K.
C1_ReportComplete ==
  BatchOver =>
    /\ phase = "returned"
    /\ collected = Tasks
    /\ returned # <<>>
    /\ returned[1].success + returned[1].failed + returned[1].skipped
         = Len(download_tasks)
    /\ download_tasks # <<>> =>
         /\ reports # <<>>
         /\ reports[1].statistics.total = Len(download_tasks)

\* C2: a task that raises an exception of any kind, or exhausts its retries,
\* never aborts the batch: no exception leaves the loop over the futures, and
\* the call returns with every task collected, each such task counted as
\* failed, and the report written.
C2_FailureIsolated ==
  LET bad == {t \in Tasks : pc[t] = "done" /\ result[t] \notin {"success", "skipped"}}
  IN /\ phase \notin {"raising", "raised"}
     /\ (phase = "returned" /\ download_tasks # <<>>) =>
          /\ collected = Tasks
          /\ failed_count = Cardinality(bad)
          /\ returned # <<>>
          /\ returned[1].failed = Cardinality(bad)
          /\ reports # <<>>

\* C3: when the transfer completed and add_file failed with a database error,
\* the task's outcome is "failed", the run does not crash, and the index holds
\* no record of the object's (cos_key, etag).
C3_IndexWriteFailureIsFailed ==
  \A t \in Tasks :
    (pc[t] = "done" /\ events[t] # <<>>
       /\ events[t][Len(events[t])] = "add_error") =>
      /\ result[t] = "failed"
      /\ phase \notin {"raising", "raised"}
      /\ ~TaskIndexed(t)

\* C4: a task that finds file_exists(cos_key, etag) true when it starts ends
\* "skipped" in that step, with no call of download_file, no call of add_file
\* and the index and the files as they were.
C4_DedupePrecedence ==
  [][\A t \in Tasks :
       (pc[t] = "check_index" /\ TaskIndexed(t) /\ pc'[t] # "check_index") =>
         /\ pc'[t] = "done"
         /\ result'[t] = "skipped"
         /\ transferCalls'[t] = 0
         /\ addCalls'[t] = 0
         /\ index' = index
         /\ files' = files]_vars

C4_Witness ==
  \E t \in Tasks :
    /\ pc[t] = "done"
    /\ result[t] = "skipped"
    /\ events[t] = <<>>
    /\ TaskIndexed(t)
    /\ transferCalls[t] = 0

\* C5: for an object neither indexed nor present locally, when download_file
\* fails N-1 times and then succeeds, 1 <= N <= retry_times, attempt N is made,
\* and once the index write has succeeded the task ends "success" after
\* exactly N calls of download_file and one call of add_file.
C5_RetrySuccess ==
  \A t \in Tasks :
    \A N \in 1..retry_times :
      LET before == <<"fs_absent">> \o TransferErrors(N - 1)
      IN /\ events[t] = before =>
              pc[t] \in {"transfer", "sleep"} /\ transferCalls[t] = N - 1
         /\ events[t] = before \o <<"transfer_ok">> =>
              pc[t] = "add_file" /\ transferCalls[t] = N /\ addCalls[t] = 0
         /\ events[t] = before \o <<"transfer_ok", "add_ok">> =>
              /\ pc[t] = "done"
              /\ result[t] = "success"
              /\ transferCalls[t] = N
              /\ addCalls[t] = 1

C5_Witness ==
  \E t \in Tasks :
    /\ events[t] = <<"fs_absent", "transfer_error", "transfer_ok", "add_ok">>
    /\ result[t] = "success"
    /\ transferCalls[t] = 2

\* the task passed both gates and every call of download_file failed
AlwaysFails(t) ==
  /\ Len(events[t]) >= 2
  /\ events[t] = <<"fs_absent">> \o TransferErrors(Len(events[t]) - 1)

\* C6: a task whose download_file always fails makes exactly retry_times
\* attempts, then ends "failed", never "success"; add_file is not called and
\* the index holds no record of the object.
C6_Exhaustion ==
  \A t \in Tasks :
    AlwaysFails(t) =>
      /\ transferCalls[t] = Len(events[t]) - 1
      /\ transferCalls[t] <= retry_times
      /\ pc[t] = "done" <=> transferCalls[t] = retry_times
      /\ pc[t] = "done" => result[t] = "failed"
      /\ result[t] # "success"
      /\ addCalls[t] = 0
      /\ ~TaskIndexed(t)

C6_Witness ==
  \E t \in Tasks :
    /\ AlwaysFails(t)
    /\ pc[t] = "done"
    /\ retry_times = 2
    /\ transferCalls[t] = 2
    /\ result[t] = "failed"

(***************************************************************************)
(* The differ alone: lines 364-367 of sync_objects, on every bucket over   *)
(* Keys and every index of at most MaxRows rows.                           *)
(***************************************************************************)
\* the rows the downloader writes
Rows == {RowFor(d, k, tag) : d \in Dirs, k \in Keys, tag \in Tags}

\* the indexes of at most n rows: file_path is the primary key
RECURSIVE Indexes(_)
Indexes(n) ==
  IF n = 0 THEN {<<>>}
  ELSE Indexes(n - 1) \cup
       {Append(idx, r) : idx \in {x \in Indexes(n - 1) : Len(x) = n - 1},
                         r \in Rows}

\* an index the downloader leaves: no two rows of one file_path, and no two
\* rows of one (cos_key, etag), since the gate of lines 142-144 skips an
\* object whose pair is indexed
IndexStates ==
  {idx \in Indexes(MaxRows) :
     \A i, j \in 1..Len(idx) :
       i # j => /\ idx[i].file_path # idx[j].file_path
                /\ ~(idx[i].cos_key = idx[j].cos_key /\ idx[i].etag = idx[j].etag)}

InitCompare ==
  /\ remote \in [Keys -> Tags \cup {NoObject}]
  /\ index \in IndexStates
  /\ files = [p \in Paths |-> NoFile]
  /\ retry_times = 0
  /\ max_workers = 1
  /\ InitRest

\* the listing, the read of the index and the comparison
CompareObjects ==
  /\ phase = "idle"
  /\ remote_objects' = Listing(remote)
  /\ local_files' = get_all_files(index)
  /\ diff' = compare_objects(Listing(remote), get_all_files(index))
  /\ phase' = "compared"
  /\ UNCHANGED <<sideVars, exit_code, envVars, cfgVars, index, files, taskVars, faults, collected,
                 success_count, failed_count, skipped_count, reports, returned,
                 mode, calls, start_remote, start_files, unstarted,
                 download_tasks, prev>>

NextCompare == CompareObjects

SpecCompare == InitCompare /\ [][NextCompare]_vars

(***************************************************************************)
(* Properties of calls in a row (SpecRuns).                                *)
(***************************************************************************)
\* the call before this one was a sync_objects that listed the whole bucket
\* and in which no task failed, and the bucket has not changed since
AfterCleanSync ==
  prev.mode = "sync" /\ prev.listed /\ prev.clean /\ prev.unchanged

\* C7: after a sync_objects in which no task ends "failed", a second
\* sync_objects against the unchanged bucket classifies no object as new and
\* none as updated, and a download_objects on the objects the first one
\* downloaded calls download_file for none of them and ends each "skipped".
C7_SyncIdempotent ==
  AfterCleanSync =>
    /\ (mode = "sync" /\ remote_objects = Listing(start_remote)) =>
         diff.new = <<>> /\ diff.updated = <<>>
    /\ (mode = "download"
          /\ \A t \in Tasks :
               <<download_tasks[t].cos_key, download_tasks[t].etag>> \in prev.succ) =>
         \A t \in Tasks :
           /\ transferCalls[t] = 0
           /\ pc[t] = "done" => result[t] = "skipped"

(***************************************************************************)
(* Properties of the differ (SpecCompare).                                 *)
(***************************************************************************)
Compared == phase = "compared"

\* the keys of a list of remote objects, as a set
KeysIn(objects) == {objects[i].Key : i \in 1..Len(objects)}

\* the rows of the index that record the key
RowsOf(key) == {i \in 1..Len(local_files) : local_files[i].cos_key = key}

NoKeyTwice(objects) ==
  \A i, j \in 1..Len(objects) : i # j => objects[i].Key # objects[j].Key

\* C8: compare_objects partitions the remote objects by key: new and updated
\* hold objects of the listing only, no key twice in either and no key in
\* both, and every listed key is in new, in updated, or has a local record
\* whose etag equals the remote ETag without its quotes.
C8_Partition ==
  Compared =>
    /\ \A i \in 1..Len(diff.new) :
         \E j \in 1..Len(remote_objects) : diff.new[i] = remote_objects[j]
    /\ \A i \in 1..Len(diff.updated) :
         \E j \in 1..Len(remote_objects) : diff.updated[i] = remote_objects[j]
    /\ NoKeyTwice(diff.new)
    /\ NoKeyTwice(diff.updated)
    /\ KeysIn(diff.new) \cap KeysIn(diff.updated) = {}
    /\ \A j \in 1..Len(remote_objects) :
         \/ remote_objects[j].Key \in KeysIn(diff.new)
         \/ remote_objects[j].Key \in KeysIn(diff.updated)
         \/ \E i \in RowsOf(remote_objects[j].Key) :
              local_files[i].etag = Strip(remote_objects[j].ETag)

C8_Witness ==
  /\ Compared
  /\ diff.new # <<>>
  /\ diff.updated # <<>>
  /\ \E j \in 1..Len(remote_objects) :
       /\ remote_objects[j].Key \notin KeysIn(diff.new) \cup KeysIn(diff.updated)
       /\ RowsOf(remote_objects[j].Key) # {}

\* C9: a remote object is new exactly when no local record has its key, and
\* updated exactly when a local record of its key has an etag different from
\* the remote ETag without its quotes; an object whose ETag without quotes
\* equals the etag of a local record is in neither list.
C9_Classification ==
  Compared =>
    \A j \in 1..Len(remote_objects) :
      LET o == remote_objects[j]
          isNew == \E i \in 1..Len(diff.new) : diff.new[i] = o
          isUpdated == \E i \in 1..Len(diff.updated) : diff.updated[i] = o
      IN /\ isNew <=> RowsOf(o.Key) = {}
         /\ isUpdated <=>
              \E i \in RowsOf(o.Key) : local_files[i].etag # Strip(o.ETag)
         /\ (\E i \in RowsOf(o.Key) : local_files[i].etag = Strip(o.ETag)) =>
              ~isNew /\ ~isUpdated

\* C9 on an index with at most one record per cos_key
OneRowPerKey ==
  \A i, j \in 1..Len(local_files) :
    i # j => local_files[i].cos_key # local_files[j].cos_key

C9_ClassificationOneRowPerKey == OneRowPerKey => C9_Classification

\* C10: deleted holds exactly the local records whose cos_key is absent from
\* the remote listing: every such record, and no record whose cos_key is
\* listed.
C10_Deleted ==
  Compared =>
    /\ \A i \in 1..Len(local_files) :
         local_files[i].cos_key \notin KeysIn(remote_objects) =>
           \E d \in 1..Len(diff.deleted) : diff.deleted[d] = local_files[i]
    /\ \A d \in 1..Len(diff.deleted) :
         /\ \E i \in 1..Len(local_files) : diff.deleted[d] = local_files[i]
         /\ diff.deleted[d].cos_key \notin KeysIn(remote_objects)

\* C10 on an index with at most one record per cos_key
C10_DeletedOneRowPerKey == OneRowPerKey => C10_Deleted

\* the keys the index records and the listing does not hold
GoneKeys ==
  {local_files[i].cos_key : i \in 1..Len(local_files)} \ KeysIn(remote_objects)

C15_CollisionFree ==
  \A t, u \in Tasks :
    download_tasks[t].cos_key # download_tasks[u].cos_key =>
      download_tasks[t].local_path # download_tasks[u].local_path

\* C16: when download_objects has returned, every task that reported
\* "success" has an index record binding its local path to its
\* (cos_key, etag), so file_exists(cos_key, etag) is true.
C16_SuccessIsIndexed ==
  (BatchCalled /\ phase = "returned") =>
    \A t \in Tasks :
      result[t] = "success" =>
        /\ TaskIndexed(t)
        /\ \E i \in 1..Len(index) :
             /\ index[i].file_path = download_tasks[t].local_path
             /\ index[i].cos_key = download_tasks[t].cos_key
             /\ index[i].etag = download_tasks[t].etag

\* C17: in both modes main returns a non-zero code when some object ended
\* "failed", and 0 only when none did or there was nothing to do.
C17_ExitCode ==
  phase = "returned" =>
    /\ exit_code \in {0, 1}
    /\ exit_code = 0 <=>
         \A t \in Tasks : result[t] \in {"success", "skipped"}

(***************************************************************************)
(* The listers: SyncDetector.list_remote_objects, EnhancedCOSDownloader.   *)
(* list_objects (around _list_objects_paginated, no filter given) and      *)
(* COSObjectDownloader.list_all_objects, against a store that serves the   *)
(* bucket in pages.                                                        *)
(***************************************************************************)
Listers == {"list_remote_objects", "list_objects", "list_all_objects"}

\* how a response says that it is the last one: no IsTruncated field, the
\* boolean False, or the string "false"; a truncated one says "true"
FalseEncodings == {"absent", "bool:False", "str:false"}
TruncatedTrue == "str:true"

\* NextMarker is the last key of the page, or a token of the store's own
TokenStyles == {"key", "opaque"}
TokenOf(k) == Append(k, "#")
KeyOfMarker(m) ==
  IF m # <<>> /\ m[Len(m)] = "#" THEN SubSeq(m, 1, Len(m) - 1) ELSE m

KeyIndex(k) == CHOOSE i \in 1..Len(KeyOrder) : KeyOrder[i] = k

\* the number of listed objects at or before the marker
Position(store, m) ==
  IF m = <<>> THEN 0
  ELSE Cardinality({i \in 1..Len(Listing(store)) :
                      KeyIndex(Listing(store)[i].Key) <= KeyIndex(KeyOfMarker(m))})

\* the store's answer to list_objects(Marker=m): the objects after the marker,
\* max_keys at most; Contents is omitted when there is none
list_objects(store, m) ==
  LET objs == Listing(store)
      pos == Position(store, m)
      last == IF pos + max_keys < Len(objs) THEN pos + max_keys ELSE Len(objs)
      page == SubSeq(objs, pos + 1, last)
      more == last < Len(objs)
  IN [HasContents |-> page # <<>>,
      Contents |-> page,
      IsTruncated |-> IF more THEN TruncatedTrue ELSE false_enc,
      NextMarker |-> IF ~more THEN <<>>
                     ELSE IF token_style = "key" THEN page[Len(page)].Key
                     ELSE TokenOf(page[Len(page)].Key)]

\* pathlib's Path(key).suffix: what follows the last dot of the last
\* component, the dot included, unless that dot is its first or last character
RECURSIVE LastIndexOf(_, _, _)
LastIndexOf(s, c, i) ==
  IF i = 0 THEN 0 ELSE IF s[i] = c THEN i ELSE LastIndexOf(s, c, i - 1)

PathName(key) == SubSeq(key, LastIndexOf(key, "/", Len(key)) + 1, Len(key))

PathSuffix(key) ==
  LET name == PathName(key)
      dot == LastIndexOf(name, ".", Len(name))
  IN IF dot > 1 /\ dot < Len(name) THEN SubSeq(name, dot, Len(name)) ELSE <<>>

\* str.lower on the letters of the model
LowerChar(c) == IF c = "W" THEN "w" ELSE c
Lower(s) == [i \in 1..Len(s) |-> LowerChar(s[i])]

InList(x, list) == \E i \in 1..Len(list) : list[i] = x

\* Python's truth value of an argument: None, 0 and [] are false
TruthyInt(a) == a.given /\ a.value # 0
TruthyList(a) == a.given /\ a.value # <<>>

\* lines 253-261: the loop that keeps the objects no filter rejects
filtered(objs, exts, mn, mx) ==
  SelectSeq(objs, LAMBDA obj :
    /\ ~(TruthyList(exts) /\ ~InList(Lower(PathSuffix(obj.Key)), exts.value))
    /\ ~(TruthyInt(mn) /\ obj.Size < mn.value)
    /\ ~(TruthyInt(mx) /\ obj.Size > mx.value))

\* the exceptions a request can raise
ListErrors == {"CosServiceError", "OSError"}

downloadVars == <<envVars, cfgVars, index, files, taskVars, faults, mainVars,
                  callVars>>

\* a lister is called: the cursor starts empty
StartLister ==
  /\ list_pc = "idle"
  /\ \E l \in Listers : lister' = l
  /\ marker' = <<>>
  /\ all_objects' = <<>>
  /\ list_pc' = "request"
  /\ UNCHANGED <<downloadVars, filterVars, op, max_keys, false_enc, token_style, requests,
                 responses, list_result, list_error>>

\* the lister returns
ListerReturns(objects) ==
  /\ list_pc' = "returned"
  /\ list_result' = objects

\* the exception leaves the lister
ListerRaises(e) ==
  /\ list_pc' = "raised"
  /\ list_error' = e
  /\ UNCHANGED list_result

ListerGoesOn(m) ==
  /\ marker' = m
  /\ UNCHANGED <<list_pc, list_result>>

\* what all_objects.extend leaves
Extended(response) ==
  IF response.HasContents THEN all_objects \o response.Contents ELSE all_objects

\* SyncDetector.list_remote_objects, one turn of the loop of lines 36-53:
\* response.get("IsTruncated", False) is true of every non-empty string, the
\* marker is the key of the last object of the page, a KeyError and a
\* CosServiceError are not caught
list_remote_objects ==
  /\ lister = "list_remote_objects"
  /\ list_pc = "request"
  /\ requests' = Append(requests, marker)
  /\ \E answer \in {"ok"} \cup ListErrors :
       IF answer = "ok"
       THEN LET response == list_objects(remote, marker)
            IN /\ responses' = Append(responses, response)
               /\ all_objects' = Extended(response)
               /\ IF response.IsTruncated \in {"str:true", "str:false"}
                  THEN IF response.HasContents
                       THEN /\ ListerGoesOn(response.Contents[Len(response.Contents)].Key)
                            /\ UNCHANGED list_error
                       ELSE /\ ListerRaises("KeyError")
                            /\ UNCHANGED marker
                  ELSE /\ ListerReturns(Extended(response))
                       /\ UNCHANGED <<marker, list_error>>
       ELSE /\ UNCHANGED <<responses, all_objects, marker>>
            /\ IF answer = "OSError"
               THEN /\ ListerReturns(all_objects)
                    /\ list_error' = answer
               ELSE ListerRaises(answer)
  /\ UNCHANGED <<downloadVars, filterVars, op, lister, max_keys, false_enc, token_style>>

\* EnhancedCOSDownloader.list_objects: one turn of the loop of
\* _list_objects_paginated (lines 197-210); an exception of the request is
\* caught at lines 249-251, where [] is returned
list_objects_paginated ==
  /\ lister = "list_objects"
  /\ list_pc = "request"
  /\ requests' = Append(requests, marker)
  /\ \E answer \in {"ok"} \cup ListErrors :
       IF answer = "ok"
       THEN LET response == list_objects(remote, marker)
            IN /\ responses' = Append(responses, response)
               /\ all_objects' = Extended(response)
               /\ UNCHANGED list_error
               /\ IF response.IsTruncated = "str:true"
                  THEN ListerGoesOn(response.NextMarker)
                  ELSE /\ ListerReturns(filtered(Extended(response), extensions,
                                               min_size, max_size))
                       /\ UNCHANGED marker
       ELSE /\ UNCHANGED <<responses, all_objects, marker>>
            /\ ListerReturns(<<>>)
            /\ list_error' = answer
  /\ UNCHANGED <<downloadVars, filterVars, op, lister, max_keys, false_enc, token_style>>

\* COSObjectDownloader.list_all_objects, one turn of the loop of lines 62-89
list_all_objects ==
  /\ lister = "list_all_objects"
  /\ list_pc = "request"
  /\ requests' = Append(requests, marker)
  /\ \E answer \in {"ok"} \cup ListErrors :
       IF answer = "ok"
       THEN LET response == list_objects(remote, marker)
            IN /\ responses' = Append(responses, response)
               /\ all_objects' = Extended(response)
               /\ UNCHANGED list_error
               /\ IF response.HasContents /\ response.IsTruncated = "str:true"
                  THEN ListerGoesOn(response.NextMarker)
                  ELSE /\ ListerReturns(Extended(response))
                       /\ UNCHANGED marker
       ELSE /\ UNCHANGED <<responses, all_objects, marker>>
            /\ ListerReturns(all_objects)
            /\ list_error' = answer
  /\ UNCHANGED <<downloadVars, filterVars, op, lister, max_keys, false_enc, token_style>>

InitList ==
  /\ remote \in [Keys -> {NoObject, TagX}]
  /\ index = <<>>
  /\ files = [p \in Paths |-> NoFile]
  /\ retry_times = 0
  /\ max_workers = 1
  /\ InitCall
  /\ lister = "none"
  /\ max_keys \in 1..MaxPage
  /\ false_enc \in FalseEncodings
  /\ token_style \in TokenStyles
  /\ marker = <<>>
  /\ all_objects = <<>>
  /\ requests = <<>>
  /\ responses = <<>>
  /\ list_pc = "idle"
  /\ list_result = <<>>
  /\ list_error = "none"
  /\ extensions = NoneList
  /\ min_size = NoneInt
  /\ max_size = NoneInt
  /\ op = NoOp

NextList ==
  \/ StartLister
  \/ list_remote_objects
  \/ list_objects_paginated
  \/ list_all_objects

SpecList == InitList /\ [][NextList]_vars

\* the extension lists tried: none, an empty one, and two of one suffix
ExtensionLists ==
  {NoneList, Given(<<>>), Given(<<<<".", "w">>>>), Given(<<<<".", "W">>>>)}
SizeLimits == {NoneInt} \cup {Given(n) : n \in 0..MaxSize}

\* the listers on a bucket, list_objects being called with any filters
InitFilter ==
  /\ remote \in [Keys -> {NoObject, TagX}]
  /\ index = <<>>
  /\ files = [p \in Paths |-> NoFile]
  /\ retry_times = 0
  /\ max_workers = 1
  /\ InitCall
  /\ lister = "none"
  /\ max_keys \in 1..MaxPage
  /\ false_enc = "str:false"
  /\ token_style = "key"
  /\ marker = <<>>
  /\ all_objects = <<>>
  /\ requests = <<>>
  /\ responses = <<>>
  /\ list_pc = "idle"
  /\ list_result = <<>>
  /\ list_error = "none"
  /\ extensions \in ExtensionLists
  /\ min_size \in SizeLimits
  /\ max_size \in SizeLimits
  /\ op = NoOp

SpecFilter == InitFilter /\ [][NextList]_vars

(***************************************************************************)
(* Properties of the listers (SpecList).                                   *)
(***************************************************************************)
Truncated(response) == response.IsTruncated = TruncatedTrue

\* the contents of the pages, in order
RECURSIVE ConcatPages(_)
ConcatPages(rs) ==
  IF rs = <<>> THEN <<>> ELSE Head(rs).Contents \o ConcatPages(Tail(rs))

\* C12: in every lister the first request carries the empty marker, and the
\* request that follows a truncated response carries the NextMarker of that
\* response.
C12_MarkerIsNextMarker ==
  /\ requests # <<>> => requests[1] = <<>>
  /\ \A i \in 1..Len(responses) :
       (Truncated(responses[i]) /\ i < Len(requests)) =>
         requests[i + 1] = responses[i].NextMarker

\* C13: when no request fails, every lister stops at the first response that
\* is not truncated, however the store writes it, or that has no Contents:
\* it makes no further request and returns the contents of the pages in
\* order, which is the listing of the bucket, no object twice.
C13_ListingComplete ==
  list_error \notin ListErrors =>
    /\ list_pc # "raised"
    /\ \A i \in 1..Len(responses) :
         (~Truncated(responses[i]) \/ ~responses[i].HasContents) =>
           /\ Len(requests) = i
           /\ list_pc = "returned"
    /\ list_pc = "returned" =>
         /\ list_result = ConcatPages(responses)
         /\ list_result = Listing(remote)
         /\ Len(requests) = Len(responses)

\* C14: when the request for page n fails, the lister does not raise: it
\* returns the objects of pages 1..n-1.
C14_PartialListing ==
  list_error \in ListErrors =>
    /\ list_pc = "returned"
    /\ list_result = ConcatPages(responses)

(***************************************************************************)
(* The IndexManager called from outside the downloader: any sequence of    *)
(* add_file and remove_file on a fresh database.                           *)
(***************************************************************************)
\* entity tags as the index stores them: without quotes
StoredTags == {Strip(tag) : tag \in Tags}

IndexAddFile ==
  \E file_path \in Paths, cos_key \in Keys, etag \in StoredTags :
    /\ Len(index) < MaxRows \/ get_file(index, file_path) # <<>>
    /\ index' = add_file(index, file_path, SizeOf(cos_key), <<cos_key, etag>>,
                         cos_key, etag)
    \* live: the paths added and not since removed
    /\ op' = [name |-> "add_file", file_path |-> file_path, cos_key |-> cos_key,
              etag |-> etag, before |-> index,
              live |-> op.live \cup {file_path}]
    /\ UNCHANGED <<envVars, cfgVars, files, taskVars, faults, mainVars, callVars,
                   listVars>>

IndexRemoveFile ==
  \E file_path \in Paths :
    /\ index' = remove_file(index, file_path)
    /\ op' = [name |-> "remove_file", file_path |-> file_path, cos_key |-> <<>>,
              etag |-> <<>>, before |-> index,
              live |-> op.live \ {file_path}]
    /\ UNCHANGED <<envVars, cfgVars, files, taskVars, faults, mainVars, callVars,
                   listVars>>

InitIndex ==
  /\ remote = [k \in Keys |-> NoObject]
  /\ index = <<>>
  /\ files = [p \in Paths |-> NoFile]
  /\ retry_times = 0
  /\ max_workers = 1
  /\ InitRest

NextIndex == IndexAddFile \/ IndexRemoveFile

SpecIndex == InitIndex /\ [][NextIndex]_vars

(***************************************************************************)
(* Properties of the index (SpecIndex).                                    *)
(***************************************************************************)
RowSet(idx) == {idx[i] : i \in 1..Len(idx)}
HasPath(idx, file_path) == \E r \in RowSet(idx) : r.file_path = file_path

\* C18: the index holds at most one record per file_path; add_file on a path
\* that has a record replaces it and adds no row, on a new path it adds one
\* row; and get_file(path) right after add_file returns the values written.
C18_Upsert ==
  /\ \A i, j \in 1..Len(index) :
       i # j => index[i].file_path # index[j].file_path
  /\ op.name = "add_file" =>
       /\ get_file(index, op.file_path) =
            <<Row(op.file_path, SizeOf(op.cos_key), <<op.cos_key, op.etag>>,
                  op.cos_key, op.etag)>>
       /\ Len(index) = Len(op.before)
                         + (IF HasPath(op.before, op.file_path) THEN 0 ELSE 1)

\* a second add_file on a path, with another key and another tag
C18_Witness ==
  /\ op.name = "add_file"
  /\ \E r \in RowSet(op.before) :
       /\ r.file_path = op.file_path
       /\ r.cos_key # op.cos_key
       /\ r.etag # op.etag
  /\ Len(index) = 2

\* C19: after remove_file(path) get_file(path) finds nothing; the records of
\* the other paths are the ones there were before; and when no record had the
\* path the index is as it was.
C19_RemoveFile ==
  op.name = "remove_file" =>
    /\ get_file(index, op.file_path) = <<>>
    /\ RowSet(index) = {r \in RowSet(op.before) : r.file_path # op.file_path}
    /\ Len(index) = Len(op.before)
                      - (IF HasPath(op.before, op.file_path) THEN 1 ELSE 0)
    /\ ~HasPath(op.before, op.file_path) => index = op.before

\* a record is removed and another one stays
C19_Witness ==
  /\ op.name = "remove_file"
  /\ HasPath(op.before, op.file_path)
  /\ Len(op.before) = 2
  /\ Len(index) = 1

\* the record at file_path was the only one of idx with the pair
OnlyAt(idx, file_path, cos_key, etag) ==
  /\ \E r \in RowSet(idx) : r.cos_key = cos_key /\ r.etag = etag
  /\ \A r \in RowSet(idx) :
       (r.cos_key = cos_key /\ r.etag = etag) => r.file_path = file_path

\* C20: file_exists(cos_key, etag) is true exactly when a record of the index
\* has that cos_key and that etag; and it is false once the only record with
\* the pair has been removed, or overwritten with another pair.
C20_FileExists ==
  \A cos_key \in Keys, etag \in StoredTags :
    /\ file_exists(index, cos_key, etag) <=>
         \E r \in RowSet(index) : r.cos_key = cos_key /\ r.etag = etag
    /\ (/\ op.name \in {"add_file", "remove_file"}
        /\ OnlyAt(op.before, op.file_path, cos_key, etag)
        /\ ~(op.cos_key = cos_key /\ op.etag = etag)) =>
         ~file_exists(index, cos_key, etag)

\* the only record with a pair is overwritten with the same key and another
\* tag, and a record with the same tag and another key is there
C20_Witness ==
  \E cos_key \in Keys, etag \in StoredTags :
    /\ op.name = "add_file"
    /\ OnlyAt(op.before, op.file_path, cos_key, etag)
    /\ op.cos_key = cos_key
    /\ op.etag # etag
    /\ \E r \in RowSet(index) : r.cos_key # cos_key /\ r.etag = etag
    /\ ~file_exists(index, cos_key, etag)

\* C21: get_all_files returns every record of the index and nothing else: one
\* record per path added and not since removed, so as many records as there
\* are such paths, each with the values last written at its path.
C21_GetAllFiles ==
  LET all == get_all_files(index)
  IN /\ Len(all) = Cardinality(op.live)
     /\ {all[i].file_path : i \in 1..Len(all)} = op.live
     /\ \A file_path \in op.live :
          \E i \in 1..Len(all) : <<all[i]>> = get_file(index, file_path)

\* two adds with distinct paths and a read that gives two records
C21_Witness ==
  /\ op.name = "add_file"
  /\ Len(op.before) = 1
  /\ ~HasPath(op.before, op.file_path)
  /\ Len(get_all_files(index)) = 2

\* no object of the batch was indexed (every task passed the gate of lines
\* 142-144) or present at its local path with its size when the call began
FreshBatch ==
  \A t \in Tasks :
    /\ events[t] # <<>>
    /\ start_files[download_tasks[t].local_path] # download_tasks[t].file_size

\* no operation of the filesystem, the client or the database failed
NothingFailed ==
  \A t \in Tasks : \A i \in 1..Len(events[t]) : events[t][i] \notin Failures

\* C22: for a batch of K objects none of which is indexed or present locally,
\* whose transfers all work (at least one attempt being allowed),
\* download_objects returns success = K, failed = 0, skipped = 0.
C22_AllSucceed ==
  (BatchOver /\ retry_times >= 1 /\ FreshBatch /\ NothingFailed) =>
    /\ phase = "returned"
    /\ returned = <<[success |-> Len(download_tasks), failed |-> 0,
                     skipped |-> 0]>>

\* C22 for a batch whose keys map to different local paths
DistinctPaths ==
  \A t, u \in Tasks :
    t # u => download_tasks[t].local_path # download_tasks[u].local_path

C22_AllSucceedDistinctPaths == DistinctPaths => C22_AllSucceed

(***************************************************************************)
(* Properties of an interrupted call (SpecInterrupt).                      *)
(***************************************************************************)
\* C23: a task that no worker had taken when the interrupt arrived makes no
\* transfer afterwards; the tasks in flight go on to their end; and main
\* returns a non-zero code.
C23_Cancellation ==
  [][/\ \A t \in unstarted : transferCalls'[t] = transferCalls[t]
     /\ phase' = "interrupted" =>
          /\ \A t \in Tasks : pc'[t] = "done"
          /\ exit_code' # 0]_vars

\* what does hold: the call ends with every task run to its end, those the
\* interrupt found waiting included, and with exit code 1
C23_InterruptWaitsForAll ==
  phase = "interrupted" =>
    /\ \A t \in Tasks : pc[t] = "done" /\ result[t] # "none"
    /\ exit_code = 1

(***************************************************************************)
(* The order of transfer, index write and outcome in one task (Spec).      *)
(***************************************************************************)
RowOfTask(t) ==
  Row(download_tasks[t].local_path, download_tasks[t].file_size,
      <<download_tasks[t].cos_key, download_tasks[t].etag>>,
      download_tasks[t].cos_key, download_tasks[t].etag)

Last(s) == s[Len(s)]

\* C24: the index is written only by a task whose last transfer has just
\* returned successfully, with the record of that task's object and path; a
\* task gets the outcome 'success' only in the step that commits its record;
\* and a task that is still running or has failed has committed nothing.
C24_IndexedAfterTransfer ==
  [][/\ index' # index =>
          \E t \in Tasks :
            /\ pc[t] = "add_file"
            /\ Last(events[t]) = "transfer_ok"
            /\ files[download_tasks[t].local_path] = download_tasks[t].file_size
            /\ index' = WithoutPath(index, download_tasks[t].local_path)
                          \o <<RowOfTask(t)>>
     /\ \A t \in Tasks :
          /\ (result'[t] = "success" /\ result[t] # "success") =>
               /\ index' # <<>>
               /\ RowOfTask(t) = Last(index')
               /\ Last(events'[t]) = "add_ok"
          /\ (pc'[t] # "done" \/ result'[t] \in {"failed", RaisedOSError}) =>
               \A i \in 1..Len(events'[t]) : events'[t][i] # "add_ok"]_vars

C24_Witness ==
  \E t, u \in Tasks :
    /\ result[t] = "success"
    /\ index # <<>>
    /\ RowOfTask(t) = Last(index)
    /\ \/ pc[u] = "transfer"
       \/ result[u] = "failed" /\ transferCalls[u] > 0
    /\ \A i \in 1..Len(index) : index[i] # RowOfTask(u)

(***************************************************************************)
(* The local-presence check of a task (Spec).                              *)
(***************************************************************************)
\* the step in which task t, not stopped by the index, passes lines 146-150
\* without an OSError of exists, stat or mkdir
ChecksLocal(t) ==
  /\ pc[t] = "check_local"
  /\ pc'[t] # "check_local"
  /\ Last(events'[t]) # "fs_error"

SameSizeOnDisk(t) ==
  files[download_tasks[t].local_path] = download_tasks[t].file_size

OtherSizeOnDisk(t) ==
  files[download_tasks[t].local_path] \notin {NoFile, download_tasks[t].file_size}

SkipsUntouched(t) ==
  /\ pc'[t] = "done"
  /\ result'[t] = "skipped"
  /\ transferCalls'[t] = 0
  /\ addCalls'[t] = 0
  /\ index' = index

RECURSIVE FailedAttempts(_)
FailedAttempts(ev) ==
  IF ev = <<>> THEN 0
  ELSE (IF Head(ev) \in {"transfer_error", "stat_error"} THEN 1 ELSE 0)
       + FailedAttempts(Tail(ev))

\* C26: after the k-th failed attempt, k < retry_times, the worker sleeps
\* 2^(k-1) seconds and then makes attempt k+1; after the failure of attempt
\* retry_times it does not sleep and the task has ended "failed"; and while
\* a worker sleeps, every other running task can take its next step.
C26_Backoff ==
  \A t \in Tasks :
    LET k == FailedAttempts(events[t])
    IN /\ k <= retry_times
       /\ \A i \in 1..Len(slept[t]) : slept[t][i] = 2 ^ (i - 1)
       /\ pc[t] = "sleep" => k < retry_times /\ Len(slept[t]) = k - 1
       /\ (pc[t] # "sleep" /\ k < retry_times) =>
            Len(slept[t]) = k /\ attempt[t] = k
       /\ (k >= 1 /\ k = retry_times) =>
            /\ Len(slept[t]) = k - 1
            /\ pc[t] = "done"
            /\ result[t] = "failed"
            /\ transferCalls[t] = retry_times
       /\ pc[t] = "sleep" =>
            \A u \in Tasks \ {t} :
              /\ pc[u] = "check_index" => ENABLED CheckIndex(u)
              /\ pc[u] = "check_local" => ENABLED CheckLocal(u)
              /\ pc[u] = "transfer" => ENABLED Transfer(u)
              /\ pc[u] = "add_file" => ENABLED AddFile(u)
              /\ pc[u] = "sleep" => ENABLED Wake(u)

C26_Witness ==
  \E t, u \in Tasks :
    /\ slept[t] = <<1, 2, 4>>
    /\ result[t] = "failed"
    /\ retry_times = 4
    /\ max_workers = 2
    /\ slept[u] = <<>>
    /\ result[u] = "success"

(***************************************************************************)
(* The workers of one batch (Spec).                                        *)
(***************************************************************************)
\* C27: two tasks that are both writing (transferring, or between two
\* attempts) never have the same local path.
C27_NoSharedPath ==
  \A t, u \in Tasks :
    (t # u /\ pc[t] \in {"transfer", "sleep"} /\ pc[u] \in {"transfer", "sleep"})
      => download_tasks[t].local_path # download_tasks[u].local_path

\* what does hold: two tasks write the same path only when their keys differ
\* in nothing but "/" against "_"
C27_SharedPathIsCollision ==
  \A t, u \in Tasks :
    (t # u /\ download_tasks[t].local_path = download_tasks[u].local_path)
      => /\ download_tasks[t].cos_key # download_tasks[u].cos_key
         /\ Replace(download_tasks[t].cos_key) = Replace(download_tasks[u].cos_key)

(***************************************************************************)
(* The pool of workers (SpecLive).                                         *)
(***************************************************************************)
\* C28: at no moment more than max_workers tasks are executing, and with no
\* interrupt every task of a submitted batch runs to its end.
C28_BoundedPool ==
  /\ [](Cardinality(Running) <= max_workers)
  /\ (phase = "running") ~> (\A t \in Tasks : pc[t] = "done")

C28_Witness ==
  /\ Cardinality(Running) = max_workers
  /\ \E t \in Tasks : pc[t] = "queued"
  /\ \E t \in Tasks : pc[t] = "sleep"

(***************************************************************************)
(* The phases of sync_objects (SpecRuns).                                  *)
(***************************************************************************)
FilesToDownload == diff.new \o diff.updated

\* C29: when sync_objects submits its tasks, the listing and the index have
\* been read from the state the call began in, the diff has been computed
\* from these two, and what is submitted is the new and the updated objects
\* of that diff and nothing else, none of them started; the listing, the
\* index rows read and the diff do not change while the tasks run.
C29_SyncPhases ==
  [][/\ (mode' = "sync" /\ calls' # calls) =>
          /\ remote_objects' \in {Listing(remote), <<>>}
          /\ local_files' = get_all_files(index)
          /\ diff' = compare_objects(remote_objects', local_files')
          /\ download_tasks' =
               [i \in 1..Len(diff'.new \o diff'.updated) |->
                  TaskOf((diff'.new \o diff'.updated)[i], DefaultDir)]
          /\ \A t \in 1..Len(download_tasks') : pc'[t] = "queued"
     /\ (mode = "sync" /\ calls' = calls) =>
          /\ UNCHANGED <<remote_objects, local_files, diff, download_tasks>>
          /\ Len(download_tasks) = Len(FilesToDownload)]_vars

C29_Witness ==
  /\ mode = "sync"
  /\ diff.new # <<>>
  /\ download_tasks # <<>>
  /\ Len(download_tasks) < Len(remote_objects)
  /\ \E t \in Tasks : pc[t] = "done"

(***************************************************************************)
(* What a sync leaves alone (Spec).                                        *)
(***************************************************************************)
InIndex(r, idx) == \E i \in 1..Len(idx) : idx[i] = r

\* C30: the step that lists, reads the index and compares changes neither
\* the index nor the bucket nor the files; and in no step of a sync does a
\* row leave the index, unless a task of the sync writes its own record at
\* the path of that row.
C30_DeletedIsInformational ==
  [][/\ (mode' = "sync" /\ calls' # calls) =>
          UNCHANGED <<index, remote, files>>
     /\ (mode = "sync" /\ calls' = calls) =>
          /\ remote' = remote
          /\ \A i \in 1..Len(index) :
               \/ InIndex(index[i], index')
               \/ \E t \in Tasks :
                    /\ pc[t] = "add_file"
                    /\ download_tasks[t].local_path = index[i].file_path
                    /\ InIndex(RowOfTask(t), index')]_vars

C30_Witness ==
  /\ mode = "sync"
  /\ phase = "returned"
  /\ diff.deleted # <<>>
  /\ \A i \in 1..Len(diff.deleted) : InIndex(diff.deleted[i], index)
  /\ \E t \in Tasks : result[t] = "success" /\ InIndex(RowOfTask(t), index)

(***************************************************************************)
(* The filters of EnhancedCOSDownloader.list_objects (SpecFilter).         *)
(***************************************************************************)
ListObjectsReturned ==
  lister = "list_objects" /\ list_pc = "returned" /\ list_error = "none"

\* the objects the filters keep when every size limit that is not None
\* counts, 0 included, and every extension list that is not None or empty
FilterAsStated(objs) ==
  SelectSeq(objs, LAMBDA obj :
    /\ TruthyList(extensions) =>
         InList(Lower(PathSuffix(obj.Key)), extensions.value)
    /\ min_size.given => obj.Size >= min_size.value
    /\ max_size.given => obj.Size <= max_size.value)

\* the requests follow from the responses of the store alone
RequestsFollowResponses ==
  /\ requests # <<>> => requests[1] = <<>>
  /\ \A i \in 1..(Len(requests) - 1) : requests[i + 1] = responses[i].NextMarker
  /\ all_objects = ConcatPages(responses)

\* C31: list_objects returns the listed objects, in listing order, whose
\* suffix is in the extension list when one is given, whose size is at least
\* min_size when given and at most max_size when given, max_size = 0
\* included; and the requests do not depend on the filters.
C31_FilterAfterListing ==
  ListObjectsReturned =>
    /\ list_result = FilterAsStated(all_objects)
    /\ RequestsFollowResponses

\* what does hold: the same with a max_size of 0 left aside
C31_FilterMaxSizeNotZero ==
  (ListObjectsReturned /\ max_size # Given(0)) =>
    /\ list_result = FilterAsStated(all_objects)
    /\ RequestsFollowResponses

(***************************************************************************)
(* The index after several calls (SpecRuns).                               *)
(***************************************************************************)
\* C32: the index never holds two records of one remote key.
C32_OneRecordPerKey ==
  \A i, j \in 1..Len(index) : i # j => index[i].cos_key # index[j].cos_key

\* what does hold: no two records of one local path
C32_OneRecordPerPath ==
  \A i, j \in 1..Len(index) : i # j => index[i].file_path # index[j].file_path

\* the remote object of key k and quoted entity tag tag
ObjectOf(k, tag) == [Key |-> k, Size |-> SizeOf(k), ETag |-> tag]

\* compare_objects puts the object neither in new nor in updated
LeftOut(o, idx) ==
  LET d == compare_objects(<<o>>, get_all_files(idx))
  IN d.new = <<>> /\ d.updated = <<>>

\* C33: on every index the calls of download_objects lead to, and for every
\* remote object, compare_objects leaves the object out of new and updated
\* exactly when file_exists(key, entity tag without its quotes) is true.
C33_DifferAgreesWithGate ==
  \A k \in Keys, tag \in Tags :
    LeftOut(ObjectOf(k, tag), index) <=> file_exists(index, k, Strip(tag))

\* what does hold: an object the differ leaves out is one the gate skips, and
\* the two agree on every index with one record per key
C33_LeftOutIsSkipped ==
  \A k \in Keys, tag \in Tags :
    /\ LeftOut(ObjectOf(k, tag), index) => file_exists(index, k, Strip(tag))
    /\ C32_OneRecordPerKey =>
         (file_exists(index, k, Strip(tag)) => LeftOut(ObjectOf(k, tag), index))

(***************************************************************************)
(* The number of transfers of a task (Spec).                               *)
(***************************************************************************)
\* C34: whatever fails, a task calls download_file at most retry_times
\* times; with retry_times <= 0 it calls it never, and a task that has passed
\* both gates then ends "failed".
C34_AtMostRetryTimes ==
  \A t \in Tasks :
    /\ transferCalls[t] <= (IF retry_times > 0 THEN retry_times ELSE 0)
    /\ (retry_times <= 0 /\ pc[t] = "done" /\ events[t] = <<"fs_absent">>) =>
         result[t] = "failed"
    /\ (retry_times <= 0 /\ events[t] # <<>> /\ events[t][1] = "fs_absent") =>
         pc[t] = "done"

C34_Witness ==
  \E t \in Tasks :
    /\ retry_times = MaxRetry
    /\ transferCalls[t] = retry_times
    /\ events[t][Len(events[t])] = "add_error"
    /\ \E i \in 1..Len(events[t]) : events[t][i] = "stat_error"

C34_ZeroReached ==
  \E t \in Tasks :
    retry_times = 0 /\ result[t] = "failed" /\ events[t] = <<"fs_absent">>

(***************************************************************************)
(* What a task changes in the index (Spec).                                *)
(***************************************************************************)
RowsAway(idx, path) == {idx[i] : i \in {j \in 1..Len(idx) : idx[j].file_path # path}}

\* C35: the index changes only in the step in which a task ends "success",
\* and then only at that task's local path: the records of every other path
\* are the same before and after; a task that has ended "skipped" or "failed"
\* has never written to the index.
C35_OnlySuccessWrites ==
  [][/\ index' # index =>
          \E t \in Tasks :
            /\ result[t] = "none"
            /\ result'[t] = "success"
            /\ RowsAway(index', download_tasks[t].local_path)
                 = RowsAway(index, download_tasks[t].local_path)
     /\ \A t \in Tasks :
          (calls' = calls /\ result'[t] \in {"skipped", "failed"}
             /\ result[t] = "none") =>
             /\ index' = index
             /\ \A i \in 1..Len(events'[t]) : events'[t][i] # "add_ok"]_vars

C35_Witness ==
  \E t, u \in Tasks :
    /\ result[t] = "success"
    /\ result[u] \in {"skipped", "failed"}
    /\ RowsAway(index, download_tasks[t].local_path) # {}
    /\ InIndex(RowOfTask(t), index)

=============================================================================
